---------------------------- MODULE Spec2Model ----------------------------
(***************************************************************************)
(* JpegToRelief web application: the thickness-field builder               *)
(* (computeThicknessMap) and the binary STL serializer (buildBinarySTL),   *)
(* in both variants of the repository:                                     *)
(*   "docs" : src/docs/app.js        (2D preview variant)                  *)
(*   "part" : src/unnamed/part_000   (3D preview variant)                  *)
(*                                                                         *)
(* The cells of a thickness field are binary32 values, held as their bit   *)
(* patterns; a store into the Float32Array rounds to the nearest binary32. *)
(* The serializer is exercised on whole-millimetre grids (coordinates are  *)
(* grid index times pxMm); the byte stream is modelled byte for byte:      *)
(* setFloat32 stores the IEEE-754 binary32 encoding, little-endian.        *)
(* Luminance, cuts, gamma and entered values are fixed-point thousandths.  *)
(***************************************************************************)
EXTENDS Integers, Sequences, FiniteSets, TLC

VARIABLES
    variant,    \* which source file is running: "docs" or "part"
    pc,         \* position: which call is about to run / has returned
    form,       \* the values entered in the page's input elements
    img,        \* the decoded source image: [width, height, kind, c]
    p,          \* the parameter object getParams returned
    data,       \* the pixels getImageData returned, index -> <<r, g, b>>
    thickness,  \* the thickness field, a function 0..len-1 -> binary32
    written,    \* the cells of thickness the pixel loop has assigned
    pxMm,       \* millimetres per pixel
    W, H,       \* grid width and height
    stl,        \* what buildBinarySTL produced
    loadedImage,  \* the file the image in loadedImage was decoded from, or 0
    loadedName,   \* loadedName, a file name as its dot-separated segments
    decoding,     \* files whose Image is being decoded (onload not yet run)
    updateTimer,  \* updateTimer: 0 (null) or the id setTimeout returned
    timers,       \* timers set and neither run nor cleared: [id, due]
    now,          \* time, in ticks
    changes,      \* times of the change events that found an image loaded
    updates,      \* the updatePreviews calls made so far, in order
    currentMesh,  \* the mesh in the scene
    outname,      \* text of the outname element
    downloads,    \* the files handed to downloadBlob, in order
    last          \* the input whose change event was handled last

callVars == <<variant, pc, form, img, p, data, thickness, written, pxMm, W, H, stl>>
pageVars ==
    <<loadedImage, loadedName, decoding, updateTimer, timers, now, changes,
      updates, currentMesh, outname, downloads, last>>
vars == <<callVars, pageVars>>

Variants == {"docs", "part"}

(* ------------------------------ bounds -------------------------------- *)
MaxW == 3
MaxH == 3
MaxT == 3
MaxPxMm == 2

(* ------------------------------ helpers ------------------------------- *)
Max2(a, b) == IF a >= b THEN a ELSE b
Min2(a, b) == IF a <= b THEN a ELSE b

RECURSIVE Pow2(_)
Pow2(n) == IF n <= 0 THEN 1 ELSE 2 * Pow2(n - 1)

(* ------------------------- DataView encodings ------------------------- *)
\* The value a read of a missing typed-array cell gives (undefined), which
\* setFloat32 converts to NaN.
NaN == 0 - 1

\* IEEE-754 binary32 bit pattern of an integer of magnitude below 2^24 (or
\* of NaN: the canonical quiet NaN 0x7FC00000).  A pattern with the sign bit
\* set is written as the negative of the pattern without it.
F32Magnitude(v) ==
    LET e == CHOOSE k \in 0..23 : Pow2(k) <= v /\ v < Pow2(k + 1)
    IN  (e + 127) * Pow2(23) + (v - Pow2(e)) * Pow2(23 - e)
F32Bits(v) ==
    IF v = NaN THEN 2143289344
    ELSE IF v = 0 THEN 0
    ELSE IF v < 0 THEN 0 - F32Magnitude(0 - v)
    ELSE F32Magnitude(v)

\* little-endian bytes of a 32-bit and of a 16-bit value
LE32Unsigned(bits) ==
    <<bits % 256, (bits \div 256) % 256, (bits \div 65536) % 256,
      (bits \div 16777216) % 256>>
LE32(bits) ==
    IF bits >= 0 THEN LE32Unsigned(bits)
    ELSE [LE32Unsigned(0 - bits) EXCEPT ![4] = @ + 128]
LE16(bits) == <<bits % 256, (bits \div 256) % 256>>

\* view.setFloat32(o, v, true) stores these four bytes
F32LE(v) == LE32(F32Bits(v))

\* DataView.getUint32(o, true) on a byte sequence (offset o is element o + 1)
U32At(bytes, o) ==
    bytes[o + 1] + 256 * bytes[o + 2] + 65536 * bytes[o + 3]
        + 16777216 * bytes[o + 4]


(* --------------------- buildBinarySTL: vertex helpers ----------------- *)
\* A grid vertex is <<x, y, layer>>; layer "top" carries the thickness,
\* layer "bottom" has z = 0.
T(x, y) == <<x, y, "top">>
B(x, y) == <<x, y, "bottom">>

vx(v, px, w, x) == IF v = "docs" THEN (w - 1 - x) * px ELSE x * px
vy(v, px, h, y) == IF v = "docs" THEN y * px ELSE (h - 1 - y) * px
\* thickness[y * W + x]: a cell of the Float32Array, held as its binary32
\* bit pattern; a cell outside the array reads as undefined
vz(th, w, x, y) ==
    LET i == y * w + x IN IF i \in DOMAIN th THEN th[i] ELSE F32Bits(NaN)

\* The three coordinates a call site passes to writeTri for a grid vertex,
\* each as the binary32 pattern setFloat32 makes of it (a value read from
\* the Float32Array keeps its pattern).
Coord(v, th, px, w, h, g) ==
    <<F32Bits(vx(v, px, w, g[1])), F32Bits(vy(v, px, h, g[2])),
      IF g[3] = "top" THEN vz(th, w, g[1], g[2]) ELSE F32Bits(0)>>

(* ------------------ buildBinarySTL: the writeTri calls ---------------- *)
\* number of iterations of  for (k = 0; k < n - 1; k++)
Iter(n) == IF n > 1 THEN n - 1 ELSE 0

\* src/docs/app.js: top surface, (a,c,b) and (b,c,d) per cell
DocsTopCell(x, y) ==
    << <<T(x, y), T(x, y + 1), T(x + 1, y)>>,
       <<T(x + 1, y), T(x, y + 1), T(x + 1, y + 1)>> >>
DocsTop(w, h) ==
    [j \in 1..(2 * Iter(w) * Iter(h)) |->
        LET c == (j - 1) \div 2
        IN  DocsTopCell(c % Iter(w), c \div Iter(w))[((j - 1) % 2) + 1]]

\* bottom surface, (a,b,c) and (b,d,c) per cell
DocsBottomCell(x, y) ==
    << <<B(x, y), B(x + 1, y), B(x, y + 1)>>,
       <<B(x + 1, y), B(x + 1, y + 1), B(x, y + 1)>> >>
DocsBottom(w, h) ==
    [j \in 1..(2 * Iter(w) * Iter(h)) |->
        LET c == (j - 1) \div 2
        IN  DocsBottomCell(c % Iter(w), c \div Iter(w))[((j - 1) % 2) + 1]]

\* wall written as (aT,bT,aB), (bT,bB,aB): edges y = 0 and x = W-1
WallFwd(aT, bT, aB, bB) == << <<aT, bT, aB>>, <<bT, bB, aB>> >>
\* mutant: the far walls wound like the near ones
WallRevAsFwd(aT, bT, aB, bB) == << <<aT, bT, aB>>, <<bT, bB, aB>> >>
\* wall written as (bT,aT,aB), (aB,bB,bT): edges y = H-1 and x = 0
WallRev(aT, bT, aB, bB) == << <<bT, aT, aB>>, <<aB, bB, bT>> >>

DocsWallY0(w, h) ==
    [j \in 1..(2 * Iter(w)) |->
        LET x == (j - 1) \div 2
        IN  WallFwd(T(x, 0), T(x + 1, 0), B(x, 0), B(x + 1, 0))[((j - 1) % 2) + 1]]
DocsWallYH(w, h) ==
    [j \in 1..(2 * Iter(w)) |->
        LET x == (j - 1) \div 2
        IN  WallRev(T(x, h - 1), T(x + 1, h - 1),
                    B(x, h - 1), B(x + 1, h - 1))[((j - 1) % 2) + 1]]
DocsWallX0(w, h) ==
    [j \in 1..(2 * Iter(h)) |->
        LET y == (j - 1) \div 2
        IN  WallRev(T(0, y), T(0, y + 1), B(0, y), B(0, y + 1))[((j - 1) % 2) + 1]]
DocsWallXW(w, h) ==
    [j \in 1..(2 * Iter(h)) |->
        LET y == (j - 1) \div 2
        IN  WallFwd(T(w - 1, y), T(w - 1, y + 1),
                    B(w - 1, y), B(w - 1, y + 1))[((j - 1) % 2) + 1]]

DocsTriCalls(w, h) ==
    DocsTop(w, h) \o DocsBottom(w, h) \o DocsWallY0(w, h) \o DocsWallYH(w, h)
        \o DocsWallX0(w, h) \o DocsWallXW(w, h)

\* src/unnamed/part_000: one loop writes top and bottom of each cell
PartCell(x, y) ==
    << <<T(x, y), T(x, y + 1), T(x + 1, y)>>,
       <<T(x + 1, y), T(x, y + 1), T(x + 1, y + 1)>>,
       <<B(x, y), B(x + 1, y), B(x, y + 1)>>,
       <<B(x + 1, y), B(x + 1, y + 1), B(x, y + 1)>> >>
PartCells(w, h) ==
    [j \in 1..(4 * Iter(w) * Iter(h)) |->
        LET c == (j - 1) \div 4
        IN  PartCell(c % Iter(w), c \div Iter(w))[((j - 1) % 4) + 1]]

\* sides, x loop: edge y = 0 then edge y = H-1
PartSideX(x, h) ==
    << <<T(x, 0), T(x + 1, 0), B(x, 0)>>,
       <<T(x + 1, 0), B(x + 1, 0), B(x, 0)>>,
       <<T(x, h - 1), B(x, h - 1), T(x + 1, h - 1)>>,
       <<T(x + 1, h - 1), B(x, h - 1), B(x + 1, h - 1)>> >>
\* mutant: the x loop of the sides stops one edge short
PartSidesXShort(w, h) ==
    [j \in 1..(4 * (Iter(w) - 1)) |-> PartSideX((j - 1) \div 4, h)[((j - 1) % 4) + 1]]
PartSidesX(w, h) ==
    [j \in 1..(4 * Iter(w)) |-> PartSideX((j - 1) \div 4, h)[((j - 1) % 4) + 1]]

\* sides, y loop: edge x = 0 then edge x = W-1
PartSideY(y, w) ==
    << <<T(0, y), B(0, y), T(0, y + 1)>>,
       <<T(0, y + 1), B(0, y), B(0, y + 1)>>,
       <<T(w - 1, y), T(w - 1, y + 1), B(w - 1, y)>>,
       <<T(w - 1, y + 1), B(w - 1, y + 1), B(w - 1, y)>> >>
PartSidesY(w, h) ==
    [j \in 1..(4 * Iter(h)) |-> PartSideY((j - 1) \div 4, w)[((j - 1) % 4) + 1]]

PartTriCalls(w, h) == PartCells(w, h) \o PartSidesX(w, h) \o PartSidesY(w, h)

TriCalls(v, w, h) == IF v = "docs" THEN DocsTriCalls(w, h) ELSE PartTriCalls(w, h)

(* ------------------- buildBinarySTL: buffer and writes ---------------- *)
\* docs/app.js: triCount = topTris + bottomTris + sideTris, computed up front
TriCountDocs(w, h) ==
    LET topTris    == (w - 1) * (h - 1) * 2
        bottomTris == topTris
        sideTris   == ((w - 1) * 2 + (h - 1) * 2) * 2
    IN  topTris + bottomTris + sideTris

\* mutant: room for the four triangles of every cell only, none for walls
AllocPartCellsOnly(w, h) == 84 + 50 * (w - 1) * (h - 1) * 4

\* part_000: "enough" bytes, 12 triangles for every cell
AllocPart(w, h) == 84 + 50 * (w - 1) * (h - 1) * 12

\* byte length handed to new ArrayBuffer(...)
AllocLen(v, w, h) ==
    IF v = "docs" THEN 84 + TriCountDocs(w, h) * 50 ELSE AllocPart(w, h)

\* The DataView stores one writeTri call makes, in order, for the cursor
\* value off at entry: each is [at |-> byte offset, bytes |-> what is stored].
StoresDocs(off, c) ==
    [k \in 1..3 |-> [at |-> off + 4 * (k - 1), bytes |-> F32LE(0)]]
      \o [k \in 1..9 |-> [at |-> off + 12 + 4 * (k - 1), bytes |-> LE32(c[k])]]
      \o << [at |-> off + 48, bytes |-> LE16(0)] >>
\* mutant: the normal is not skipped
StoresPartNoSkip(off, c) ==
    [k \in 1..9 |-> [at |-> off + 4 * (k - 1), bytes |-> LE32(c[k])]]
\* part_000: off += 12 skips the normal, then nine floats; the attribute
\* bytes are skipped by off += 38
StoresPart(off, c) ==
    [k \in 1..9 |-> [at |-> (off + 12) + 4 * (k - 1), bytes |-> LE32(c[k])]]
Stores(v, off, c) == IF v = "docs" THEN StoresDocs(off, c) ELSE StoresPart(off, c)

\* mutant: the cursor forgets the two attribute bytes
AdvanceNoAttr(v, off) == off + 48

\* advance of the write cursor by one writeTri call
Advance(v, off) == IF v = "docs" THEN off + 50 ELSE (off + 12) + 38

\* a DataView store outside the buffer throws RangeError
InBuffer(s, n) == s.at >= 0 /\ s.at + Len(s.bytes) <= n

\* the buffer (byte offset o is element o + 1) after one store inside it
Stored(buf, s) ==
    SubSeq(buf, 1, s.at) \o s.bytes
        \o SubSeq(buf, s.at + Len(s.bytes) + 1, Len(buf))

\* the stores ss[k..] made one after the other; the first one outside the
\* buffer throws
RECURSIVE StoreAll(_, _, _)
StoreAll(st, ss, k) ==
    IF k > Len(ss) \/ st.status # "ok" THEN st
    ELSE IF ~InBuffer(ss[k], st.alloc)
         THEN [st EXCEPT !.status = "RangeError"]
    ELSE StoreAll([st EXCEPT !.buf = Stored(st.buf, ss[k])], ss, k + 1)

\* view.setUint32(o, val, true)
SetUint32(st, o, val) == StoreAll(st, << [at |-> o, bytes |-> LE32(val)] >>, 1)

\* writeTri(ax, ay, az, bx, by, bz, cx, cy, cz); call = [tri, c]
TriWritten(v, s1, call) ==
    IF s1.status # "ok" THEN s1
    ELSE [s1 EXCEPT !.off   = Advance(v, s1.off),
                    !.count = IF v = "part" THEN s1.count + 1 ELSE s1.count,
                    !.tris  = Append(s1.tris, call.tri)]
WriteTri(v, st, call) ==
    TriWritten(v, StoreAll(st, Stores(v, st.off, call.c), 1), call)

RECURSIVE WriteTris(_, _, _, _)
WriteTris(v, st, calls, k) ==
    IF k > Len(calls) \/ st.status # "ok" THEN st
    ELSE WriteTris(v, WriteTri(v, st, calls[k]), calls, k + 1)

\* the state right after  new ArrayBuffer / new DataView / let off = 84
Allocated(v, w, h) ==
    LET n == AllocLen(v, w, h)
    IN  IF n < 0
        THEN [status |-> "RangeError", alloc |-> 0, buf |-> <<>>,
              off |-> 84, count |-> 0, tris |-> <<>>]
        ELSE [status |-> IF v = "docs" /\ n < 80 THEN "RangeError" ELSE "ok",
              alloc |-> n, buf |-> [i \in 1..n |-> 0],
              off |-> 84, count |-> 0, tris |-> <<>>]

\* buf.slice(0, end): end is clamped to the byte length
Slice(buf, n, end) == SubSeq(buf, 1, Min2(Max2(end, 0), n))

\* the vertices and the nine coordinates of every writeTri call, in order
Calls(v, th, px, w, h, tc) ==
    [k \in 1..Len(tc) |->
        [tri |-> tc[k],
         c |-> Coord(v, th, px, w, h, tc[k][1])
                 \o Coord(v, th, px, w, h, tc[k][2])
                 \o Coord(v, th, px, w, h, tc[k][3])]]

\* part_000: view.setUint32(80, count, true) after the loops
CountPatched(v, s1) == IF v = "part" THEN SetUint32(s1, 80, s1.count) ELSE s1

\* return buf (docs/app.js) or buf.slice(0, off) (part_000); a RangeError
\* thrown on the way leaves no stream
Returned(v, s2) ==
    IF s2.status # "ok"
    THEN [status |-> s2.status, bytes |-> <<>>, tris |-> <<>>,
          off |-> s2.off, alloc |-> s2.alloc]
    ELSE [status |-> "ok",
          bytes  |-> IF v = "part" THEN Slice(s2.buf, s2.alloc, s2.off)
                     ELSE s2.buf,
          tris   |-> s2.tris, off |-> s2.off, alloc |-> s2.alloc]

\* buildBinarySTL(thickness, pxMm, W, H): [status, bytes, tris, off, alloc]
BuildBinarySTL(v, th, px, w, h) ==
    Returned(v,
      CountPatched(v,
        WriteTris(v,
                  SetUint32(Allocated(v, w, h), 80,
                            IF v = "docs" THEN TriCountDocs(w, h) ELSE 0),
                  Calls(v, th, px, w, h, TriCalls(v, w, h)), 1)))

(* ------------------------------ getParams ----------------------------- *)
\* Numbers with a fraction (luminance, cuts, gamma, millimetres, entered
\* values) are fixed-point: thousandths, rounded down.  The cells of a
\* thickness field are binary32 values, held as their bit patterns.
One == 10 * 10 * 10

\* what an input element holds: a number, or text that parses to NaN
Num(n) == [ok |-> TRUE, val |-> n]
NotANumber == [ok |-> FALSE, val |-> 0]

\* program constants of getParams
MinWidthPx == 10
DefWidthPxDocs == 600
DefWidthPxPart == 400
DefWidthMm == 100

\* docs/app.js numberVal(id, def): parseFloat, def unless finite
numberVal(e, def) == IF e.ok THEN e.val ELSE def
\* part_000: parseFloat(...) || def, where NaN and 0 are falsy
ParseFloatOr(e, def) == IF e.ok /\ e.val # 0 THEN e.val ELSE def
\* part_000: parseInt(...) || def: the integer part, toward zero; NaN, 0 and
\* -0 are falsy
ParseIntOr(e, def) ==
    LET n == IF e.val >= 0 THEN e.val \div One ELSE 0 - ((0 - e.val) \div One)
    IN  IF e.ok /\ n # 0 THEN n ELSE def
\* Math.floor of a fixed-point number
Floor(n) == n \div One

\* widthPx: Math.max(10, ...) of the entered value
WidthPx(v, e) ==
    IF v = "docs"
    THEN Max2(MinWidthPx, Floor(numberVal(e, DefWidthPxDocs * One)))
    ELSE Max2(MinWidthPx, ParseIntOr(e, DefWidthPxPart))

\* getParams(): the parameter object read from the form f
getParams(v, f) ==
    LET flip == IF f.rot180 THEN [x |-> TRUE, y |-> TRUE]
                ELSE [x |-> f.flipX, y |-> f.flipY]
    IN  IF v = "docs"
        THEN [widthMm   |-> numberVal(f.widthMm, DefWidthMm * One),
              widthPx   |-> WidthPx(v, f.widthPx),
              baseMm    |-> numberVal(f.baseMm, 800),
              reliefMm  |-> numberVal(f.reliefMm, 1500),
              blackCut  |-> numberVal(f.blackCut, 20),
              whiteCut  |-> numberVal(f.whiteCut, 980),
              toneGamma |-> numberVal(f.toneGamma, 1150),
              mapInvert |-> f.mapInvert,
              flipX |-> flip.x, flipY |-> flip.y]
        ELSE [widthMm   |-> ParseFloatOr(f.widthMm, DefWidthMm * One),
              widthPx   |-> WidthPx(v, f.widthPx),
              baseMm    |-> ParseFloatOr(f.baseMm, 800),
              reliefMm  |-> ParseFloatOr(f.reliefMm, 2000),
              blackCut  |-> ParseFloatOr(f.blackCut, 0),
              whiteCut  |-> ParseFloatOr(f.whiteCut, One),
              toneGamma |-> ParseFloatOr(f.toneGamma, One),
              mapInvert |-> f.mapInvert,
              flipX |-> flip.x, flipY |-> flip.y]

(* -------------------------- computeThicknessMap ----------------------- *)
\* srgbToLinear(c / 255) for the channel values the model's images use:
\* c / 255 / 12.92 up to 0.04045 (c <= 10), ((u + 0.055) / 1.055)^2.4 above
srgbToLinear(c) ==
    IF c * 100000 <= 4045 * 255
    THEN (c * One * 100) \div (255 * 1292)
    ELSE CASE c = 64  -> 51
           [] c = 128 -> 215
           [] c = 188 -> 502
           [] c = 255 -> One

\* mutant: a mistyped green weight
LuminanceTypo(px) ==
    (2126 * srgbToLinear(px[1]) + 7125 * srgbToLinear(px[2])
        + 722 * srgbToLinear(px[3])) \div 10000

\* Rec.709 luminance of an <<r, g, b>> pixel
Luminance(px) ==
    (2126 * srgbToLinear(px[1]) + 7152 * srgbToLinear(px[2])
        + 722 * srgbToLinear(px[3])) \div 10000

\* mutant: the normalized luminance is not clamped to [0, 1]
ClipNormalizeNoClamp(y, prm) ==
    ((y - prm.blackCut) * One) \div Max2(1, prm.whiteCut - prm.blackCut)

\* Math.max(0, Math.min(1, (Y - blackCut) * invRange)), with
\* invRange = 1 / Math.max(1e-9, whiteCut - blackCut); the smallest divisor
\* of the fixed-point grid stands for 1e-9
ClipNormalize(y, prm) ==
    Max2(0, Min2(One, ((y - prm.blackCut) * One)
                          \div Max2(1, prm.whiteCut - prm.blackCut)))

\* Math.pow(Y, 1 / toneGamma), for toneGamma 0.5 and 2
\* the integer square root of n, between lo and hi
RECURSIVE SqrtBetween(_, _, _)
SqrtBetween(n, lo, hi) ==
    IF lo >= hi THEN lo
    ELSE LET mid == (lo + hi + 1) \div 2
         IN  IF mid * mid <= n THEN SqrtBetween(n, mid, hi)
             ELSE SqrtBetween(n, lo, mid - 1)
Isqrt(n) == SqrtBetween(n, 0, One)
PowInv(y, g) ==
    CASE g = 2 * One   -> Isqrt(y * One)
      [] g = One \div 2 -> (y * y) \div One

\* the tone curve is skipped when toneGamma is 1
ToneCurve(y, g) == IF g # One THEN PowInv(y, g) ELSE y

\* thickness of one pixel: t = baseMm + reliefMm * v
PixelThickness(prm, px) ==
    LET y == ToneCurve(ClipNormalize(Luminance(px), prm), prm.toneGamma)
        v == IF prm.mapInvert THEN One - y ELSE y
    IN  prm.baseMm + (prm.reliefMm * v) \div One

\* mutant: the flipped column is counted from W instead of W - 1
FlipIndexOffByOne(prm, w, h, x, y) ==
    (IF prm.flipY THEN h - 1 - y ELSE y) * w + (IF prm.flipX THEN w - x ELSE x)

\* the cell the pixel (x, y) is written to: thickness[oy * W + ox]
FlipIndex(prm, w, h, x, y) ==
    (IF prm.flipY THEN h - 1 - y ELSE y) * w + (IF prm.flipX THEN w - 1 - x ELSE x)

\* 2^k for k = 0..30
Pow2Table == [k \in 0..30 |-> Pow2(k)]

\* The binade of t thousandths, t > 0: the e with 2^e <= t/1000 < 2^(e+1).
Binade(t) ==
    CHOOSE e \in (0 - 10)..10 :
        /\ IF e >= 0 THEN One * Pow2Table[e] <= t
           ELSE One <= t * Pow2Table[0 - e]
        /\ IF e >= 0 - 1 THEN t < One * Pow2Table[e + 1]
           ELSE t * Pow2Table[0 - (e + 1)] < One

\* the binary32 pattern with exponent e and the 24-bit significand
\* round(scaled / 125); the remainder is never half of 125, so no tie arises
Nearest(e, scaled) ==
    (e + 127) * Pow2Table[23] - Pow2Table[23] + (scaled \div 125)
        + (IF 2 * (scaled % 125) > 125 THEN 1 ELSE 0)

\* t/1000 scaled to a 24-bit significand, t * 2^(23-e) / 1000, as the
\* numerator over 125
Scaled(t, e) == t * Pow2Table[20 - e]

\* A store into a Float32Array rounds the double to the nearest binary32.
\* Fround(t) is the bit pattern stored for t thousandths (0 <= t < 2^11
\* whole units).
FroundIn(t, e) == Nearest(e, Scaled(t, e))
Fround(t) == IF t = 0 THEN 0 ELSE FroundIn(t, Binade(t))

\* thickness[i] = t; a typed array ignores a store outside it.  acc.written
\* records which cells have been assigned.
StoreCell(acc, i, t) ==
    IF i \in DOMAIN acc.th
    THEN [th |-> [acc.th EXCEPT ![i] = Fround(t)],
          written |-> [acc.written EXCEPT ![i] = TRUE]]
    ELSE acc

\* one iteration of the pixel loop, acc = [th, written]
PixelStep(prm, dat, w, h, acc, k) ==
    StoreCell(acc, FlipIndex(prm, w, h, k % w, k \div w),
              PixelThickness(prm, dat[k]))

\* iterations lo .. hi-1 of the pixel loop (row-major), in order; an array
\* without cells takes no store
RECURSIVE PixelLoop(_, _, _, _, _, _, _)
PixelLoop(prm, dat, w, h, acc, lo, hi) ==
    IF acc.th = <<>> \/ hi <= lo THEN acc
    ELSE IF hi = lo + 1 THEN PixelStep(prm, dat, w, h, acc, lo)
    ELSE LET mid == (lo + hi) \div 2
         IN  PixelLoop(prm, dat, w, h,
                       PixelLoop(prm, dat, w, h, acc, lo, mid), mid, hi)

\* Math.round(n / d), d > 0: halves go up
Round(n, d) == (2 * n + d) \div (2 * d)

\* H = Math.round(img.height * (W / img.width)), in docs/app.js at least 1
CanvasHeight(v, image, w) ==
    IF v = "docs"
    THEN Max2(1, Round(image.height * w, image.width))
    ELSE Round(image.height * w, image.width)

\* return { thickness, pxMm, W, H }
FieldResult(acc, prm, w, h) ==
    [thickness |-> acc.th,
     written |-> {i \in DOMAIN acc.written : acc.written[i]},
     pxMm |-> prm.widthMm \div w, W |-> w, H |-> h]

\* new Float32Array(W * H): all cells 0, none assigned yet
NewField(n) == [th |-> [i \in 0..(n - 1) |-> 0], written |-> [i \in 0..(n - 1) |-> FALSE]]

\* computeThicknessMap(img, p) on the pixels dat that getImageData returned
computeThicknessMap(v, image, prm, dat) ==
    LET w == prm.widthPx
        h == CanvasHeight(v, image, w)
    IN  FieldResult(PixelLoop(prm, dat, w, h, NewField(w * h), 0, w * h),
                    prm, w, h)

(* ------------------------ the page at load time ----------------------- *)
NoFile == 0
NoTimer == 0
NoMesh == [none |-> TRUE]
NoEvent == "none"

\* let loadedImage = null; let loadedName = "image"; let updateTimer = null;
\* currentMesh undefined; nothing decoded, scheduled, shown or downloaded
PageAtStart ==
    /\ loadedImage = NoFile
    /\ loadedName = <<"image">>
    /\ decoding = {}
    /\ updateTimer = NoTimer
    /\ timers = {}
    /\ now = 0
    /\ changes = <<>>
    /\ updates = <<>>
    /\ currentMesh = NoMesh
    /\ outname = <<>>
    /\ downloads = <<>>
    /\ last = NoEvent

(* ----------------- specification of buildBinarySTL alone -------------- *)
NoStl == [status |-> "none", bytes |-> <<>>, tris |-> <<>>, off |-> 0, alloc |-> 0]
\* placeholders for the parts of the page a specification does not exercise
NoForm == [none |-> TRUE]
NoImage == [none |-> TRUE]
NoParams == [none |-> TRUE]

\* thickness fields handed in (whole millimetres, as binary32 patterns):
\* uniform ones and ramps of period MaxT + 1, the thinnest cell 0 or 1
Fields(len) ==
    {[i \in 0..(len - 1) |-> F32Bits(s + ((a * i) % (MaxT + 1)))] :
        s \in 0..1, a \in 0..1}

InitSTL ==
    /\ variant \in Variants
    /\ pc = "stl_call"
    /\ W \in 0..MaxW
    /\ H \in 0..MaxH
    /\ pxMm \in 1..MaxPxMm
    /\ \E len \in Max2(0, W * H - 1)..(W * H + 1) : thickness \in Fields(len)
    /\ stl = NoStl
    /\ form = NoForm /\ img = NoImage /\ p = NoParams /\ data = <<>>
    /\ PageAtStart
    /\ written = {}

\* one call of buildBinarySTL(thickness, pxMm, W, H)
CallBuildBinarySTL ==
    /\ pc = "stl_call"
    /\ stl' = BuildBinarySTL(variant, thickness, pxMm, W, H)
    /\ pc' = "stl_done"
    /\ UNCHANGED <<variant, form, img, p, data, thickness, written, pxMm, W, H>>
    /\ UNCHANGED pageVars

NextSTL == CallBuildBinarySTL

SpecSTL == InitSTL /\ [][NextSTL]_vars

(* --------------- specification of computeThicknessMap alone ----------- *)
\* the colours of the model's images, <<r, g, b>>
Palette ==
    << <<0, 0, 0>>, <<255, 255, 255>>, <<188, 188, 188>>, <<255, 0, 0>>,
       <<10, 10, 10>>, <<64, 128, 255>> >>

\* The pixels drawImage/getImageData deliver for an image on a w x h canvas:
\* a uniform image stays uniform; a "pattern" image is a diagonal cycle
\* through the palette, different in every row and column.
Raster(image, w, h) ==
    [k \in 0..(w * h - 1) |->
        IF image.kind = "uniform" THEN Palette[image.c]
        ELSE Palette[(((k % w) + 2 * (k \div w) + image.c) % Len(Palette)) + 1]]

ImageKinds ==
    {[kind |-> "uniform", c |-> 1], [kind |-> "uniform", c |-> 2],
     [kind |-> "pattern", c |-> 0], [kind |-> "pattern", c |-> 1]}

\* width x height of the source images of the direct calls
SmallSizes == {<<1, 1>>, <<2, 1>>, <<3, 1>>, <<1, 2>>}

MakeImage(size, k) ==
    [width |-> size[1], height |-> size[2], kind |-> k.kind, c |-> k.c]

\* clip windows: the full range, a narrower one, and an empty one
CutPairs == {<<0, One>>, <<200, 800>>, <<500, 500>>}

InitField ==
    /\ variant \in Variants
    /\ pc = "field_call"
    /\ \E size \in SmallSizes, k \in ImageKinds : img = MakeImage(size, k)
    /\ \E w \in 1..MaxW, base \in {0, 700, 800}, relief \in {0, 2000},
          cut \in CutPairs, g \in {One \div 2, One, 2 * One},
          inv \in BOOLEAN, fx \in BOOLEAN, fy \in BOOLEAN :
          p = [widthMm |-> DefWidthMm * One, widthPx |-> w,
               baseMm |-> base, reliefMm |-> relief,
               blackCut |-> cut[1], whiteCut |-> cut[2], toneGamma |-> g,
               mapInvert |-> inv, flipX |-> fx, flipY |-> fy]
    /\ form = NoForm /\ data = <<>> /\ thickness = <<>> /\ written = {}
    /\ pxMm = 0 /\ W = 0 /\ H = 0 /\ stl = NoStl
    /\ PageAtStart

\* the caller's destructuring of the returned object r
FieldReturned(r) ==
    /\ thickness' = r.thickness
    /\ written' = r.written
    /\ pxMm' = r.pxMm
    /\ W' = r.W /\ H' = r.H

\* const { thickness, pxMm, H, W } = await computeThicknessMap(img, p);
\* getImageData throws IndexSizeError for a canvas without rows or columns
FieldCall(prm) ==
    LET w == prm.widthPx
        h == CanvasHeight(variant, img, w)
    IN  IF w <= 0 \/ h <= 0
        THEN /\ pc' = "field_threw"
             /\ W' = w /\ H' = h
             /\ UNCHANGED <<data, thickness, written, pxMm>>
        ELSE /\ pc' = "field_done"
             /\ data' = Raster(img, w, h)
             /\ FieldReturned(computeThicknessMap(variant, img, prm,
                                                  Raster(img, w, h)))

\* one call of computeThicknessMap(img, p)
CallComputeThicknessMap ==
    /\ pc = "field_call"
    /\ FieldCall(p)
    /\ UNCHANGED <<variant, form, img, p, stl>>
    /\ UNCHANGED pageVars

NextField == CallComputeThicknessMap

SpecField == InitField /\ [][NextField]_vars

(* ------- specification of the form-to-field part of the pipeline ------ *)
MaxCells == 1200

\* what the user may have typed into widthPx (thousandths)
WidthPxEntries ==
    {NotANumber, Num(0), Num(0 - 500), Num(5 * One), Num(10 * One),
     Num(10700), Num(12 * One)}

\* width x height of the source images of the pipeline runs
WideSizes == {<<20, 1>>, <<20, 3>>, <<25, 1>>, <<500, 1>>, <<1000, 2>>}

InitPipe ==
    /\ variant \in Variants
    /\ pc = "page"
    /\ \E size \in WideSizes, k \in ImageKinds : img = MakeImage(size, k)
    /\ \E e \in WidthPxEntries, r \in BOOLEAN, fx \in BOOLEAN :
          form = [widthMm |-> Num(DefWidthMm * One), widthPx |-> e,
                  baseMm |-> Num(800), reliefMm |-> Num(2000),
                  blackCut |-> Num(0), whiteCut |-> Num(One),
                  toneGamma |-> Num(One), mapInvert |-> TRUE,
                  flipX |-> fx, flipY |-> FALSE, rot180 |-> r]
    /\ LET w == getParams(variant, form).widthPx
       IN  w * CanvasHeight(variant, img, w) <= MaxCells
    /\ p = NoParams /\ data = <<>> /\ thickness = <<>> /\ written = {}
    /\ pxMm = 0 /\ W = 0 /\ H = 0 /\ stl = NoStl
    /\ PageAtStart

\* const params = getParams();
\* const { thickness, pxMm, H, W } = await computeThicknessMap(loadedImage, params);
ParamsAndField ==
    /\ pc = "page"
    /\ p' = getParams(variant, form)
    /\ FieldCall(getParams(variant, form))
    /\ UNCHANGED <<variant, form, img, stl>>
    /\ UNCHANGED pageVars

NextPipe == ParamsAndField

SpecPipe == InitPipe /\ [][NextPipe]_vars

(* ------------------- the page: files, form, pipeline ------------------ *)
MaxTime == 4
MaxChanges == 2
MaxUpdates == 2
MaxDownloads == 2

\* The files the user can pick or drop, by name (dot-separated segments):
\* photo.jpg and scan.v2.png.
FileNames == << <<"photo", "jpg">>, <<"scan", "v2", "png">> >>
Files == 1..Len(FileNames)

\* f.name.replace(/\.[^.]+$/, ""): a last dot followed by at least one
\* character is cut off with what follows it
BaseName(name) ==
    IF Len(name) >= 2 /\ name[Len(name)] # ""
    THEN SubSeq(name, 1, Len(name) - 1) ELSE name

\* the image a file decodes to, when it decodes
FileImage(f) ==
    IF f = 1 THEN MakeImage(<<20, 4>>, [kind |-> "pattern", c |-> 0])
    ELSE MakeImage(<<10, 2>>, [kind |-> "pattern", c |-> 1])

\* the inputs of the page with the three orientation checkboxes as given
PageForm(fx, fy, r) ==
    [widthMm |-> Num(DefWidthMm * One), widthPx |-> Num(MinWidthPx * One),
     baseMm |-> Num(800), reliefMm |-> Num(2000),
     blackCut |-> Num(0), whiteCut |-> Num(One),
     toneGamma |-> Num(One), mapInvert |-> TRUE,
     flipX |-> fx, flipY |-> fy, rot180 |-> r]

\* `${loadedName}_W${params.widthMm}mm.stl`
OutFile(name, widthMm) == [base |-> name, widthMm |-> widthMm, ext |-> "stl"]

\* what the handlers keep of a finished buildBinarySTL call: the stream is
\* determined by the field, the grid and pxMm
Built(r, s) ==
    [status |-> s.status, field |-> r.thickness, W |-> r.W, H |-> r.H,
     pxMm |-> r.pxMm, len |-> Len(s.bytes)]

\* buildBinarySTL(thickness, pxMm, W, H) on a returned field r (pxMm is a
\* whole number of millimetres for the page's form)
FieldBuilt(v, r) ==
    Built(r, BuildBinarySTL(v, r.thickness, r.pxMm \div One, r.W, r.H))

\* const { thickness, pxMm, H, W } = await computeThicknessMap(image, params);
\* const stlBytes = buildBinarySTL(thickness, pxMm, W, H);
\* either call may throw
Generate(v, image, prm) ==
    IF prm.widthPx <= 0 \/ CanvasHeight(v, image, prm.widthPx) <= 0
    THEN [status |-> "IndexSizeError"]
    ELSE FieldBuilt(v, computeThicknessMap(v, image, prm,
             Raster(image, prm.widthPx, CanvasHeight(v, image, prm.widthPx))))

\* Generate for every file and orientation of the page, computed once
GeneratedRow(v, f) ==
    << Generate(v, FileImage(f), getParams(v, PageForm(FALSE, FALSE, FALSE))),
       Generate(v, FileImage(f), getParams(v, PageForm(FALSE, TRUE, FALSE))),
       Generate(v, FileImage(f), getParams(v, PageForm(TRUE, FALSE, FALSE))),
       Generate(v, FileImage(f), getParams(v, PageForm(TRUE, TRUE, FALSE))) >>
GeneratedTable ==
    << << GeneratedRow("docs", 1), GeneratedRow("docs", 2) >>,
       << GeneratedRow("part", 1), GeneratedRow("part", 2) >> >>
Generated(v, f, prm) ==
    GeneratedTable[IF v = "docs" THEN 1 ELSE 2][f]
                  [(IF prm.flipX THEN 2 ELSE 0) + (IF prm.flipY THEN 1 ELSE 0) + 1]

(* --------------------- the page: its event handlers ------------------- *)
\* setTimeout(updatePreviews, 400); the clock advances in ticks of 200 ms
DebounceMs == 400
TickMs == 2 * 100
Delay == DebounceMs \div TickMs

\* the call updatePreviews() up to its first await: nothing without an
\* image, else the call waits for the next animation frame
UpdateStarted(ups, image, by, at) ==
    IF image = NoFile THEN ups
    ELSE Append(ups, [by |-> by, at |-> at, stage |-> "frame",
                      widthMm |-> 0, mesh |-> NoMesh])

\* updatePreviews after the animation frame: getParams, computeThicknessMap,
\* draw2D, buildBinarySTL and new STLLoader().load(url, callback); an
\* exception ends the call
UpdateBuilt(u, image, prm, g) ==
    IF g.status = "ok"
    THEN [u EXCEPT !.stage = "loader", !.widthMm = prm.widthMm,
                   !.mesh = [file |-> image, flipX |-> prm.flipX,
                             flipY |-> prm.flipY, built |-> g]]
    ELSE [u EXCEPT !.stage = "threw"]
UpdateFramed(u, image, f) ==
    IF u.stage # "frame" THEN u
    ELSE UpdateBuilt(u, image, getParams("part", f),
                     Generated("part", image, getParams("part", f)))

\* docs/app.js renderPreview(): getParams, computeThicknessMap, the preview
\* canvas, then the outname text; an exception leaves the text alone
RenderPreview(name, image, f, text) ==
    IF Generated("docs", image, getParams("docs", f)).status # "IndexSizeError"
    THEN OutFile(name, getParams("docs", f).widthMm) ELSE text

\* a file picked in the file input or dropped on the dropzone:
\* handleFile(f) / setImageFile(f) up to the await of the decoded image
SelectFile(f) ==
    /\ pc = "page"
    /\ f \notin decoding
    /\ Len(updates) + Cardinality(decoding) + Cardinality(timers) < MaxUpdates
    /\ loadedName' = BaseName(FileNames[f])
    /\ decoding' = decoding \cup {f}
    /\ UNCHANGED <<loadedImage, updateTimer, timers, now, changes, updates,
                   currentMesh, outname, downloads, last>>
    /\ UNCHANGED callVars

\* img.onload for the file f, and the rest of handleFile / setImageFile
LoadCompletes(f) ==
    /\ pc = "page"
    /\ f \in decoding
    /\ decoding' = decoding \ {f}
    /\ loadedImage' = f
    /\ IF variant = "part"
       THEN /\ updates' = UpdateStarted(updates, f, "file", now)
            /\ UNCHANGED outname
       ELSE /\ outname' = RenderPreview(loadedName, f, form, outname)
            /\ UNCHANGED updates
    /\ UNCHANGED <<loadedName, updateTimer, timers, now, changes, currentMesh,
                   downloads, last>>
    /\ UNCHANGED callVars

\* the file f does not decode: docs/app.js rejects and setImageFile throws
\* at its await; part_000 sets no onerror and handleFile never resumes
LoadFails(f) ==
    /\ pc = "page"
    /\ f \in decoding
    /\ decoding' = decoding \ {f}
    /\ UNCHANGED <<loadedImage, loadedName, updateTimer, timers, now, changes,
                   updates, currentMesh, outname, downloads, last>>
    /\ UNCHANGED callVars

\* downloadBlob(blob, `${loadedName}_W${params.widthMm}mm.stl`); the entry
\* also records the file the mesh came from
Downloaded(dl, name, image, prm, g) ==
    IF g.status = "ok"
    THEN Append(dl, [name |-> OutFile(name, prm.widthMm), file |-> image,
                     built |-> g])
    ELSE dl

\* click on the Download button
ClickDownload ==
    /\ pc = "page"
    /\ loadedImage # NoFile
    /\ Len(downloads) < MaxDownloads
    /\ downloads' = Downloaded(downloads, loadedName, loadedImage,
                               getParams(variant, form),
                               Generated(variant, loadedImage,
                                         getParams(variant, form)))
    /\ outname' = IF variant = "docs" /\ downloads' # downloads
                  THEN OutFile(loadedName, getParams(variant, form).widthMm)
                  ELSE outname
    /\ UNCHANGED <<loadedImage, loadedName, decoding, updateTimer, timers, now,
                   changes, updates, currentMesh, last>>
    /\ UNCHANGED callVars

\* the checkboxes whose change events the model delivers
Settings == {"flipX", "flipY", "rot180"}

\* mutant: the listener only ever switches the flips on
Rot180ListenerOnOnly(v, f) ==
    IF f.rot180 THEN [f EXCEPT !.flipX = TRUE, !.flipY = TRUE] ELSE f

\* the change listener of rot180: part_000 copies its state to flipX and
\* flipY; docs/app.js only switches them on
Rot180Listener(v, f) ==
    IF v = "part" THEN [f EXCEPT !.flipX = f.rot180, !.flipY = f.rot180]
    ELSE IF f.rot180 THEN [f EXCEPT !.flipX = TRUE, !.flipY = TRUE]
    ELSE f

\* the form after the user toggled the checkbox id and its change listeners
\* have run
Toggled(v, f, id) ==
    IF id = "rot180" THEN Rot180Listener(v, [f EXCEPT !.rot180 = ~f.rot180])
    ELSE [f EXCEPT ![id] = ~f[id]]

\* mutant: the pending timer is left running
ClearedNothing(tm, id) == tm

\* if (updateTimer) clearTimeout(updateTimer);
Cleared(tm, id) == IF id = NoTimer THEN tm ELSE {t \in tm : t.id # id}

\* setTimeout hands out a new id each time
NewTimerId(chg) == Len(chg) + 1

\* no timer has reached its time: a timer runs at its time, before the clock
\* moves on and before a later change event
NoTimerDue == \A t \in timers : t.due > now

\* part_000, the debounce listener of the inputs: nothing without an image,
\* else clear the pending timer and set a new one
Debounce ==
    IF loadedImage = NoFile
    THEN UNCHANGED <<updateTimer, timers, changes>>
    ELSE /\ timers' = Cleared(timers, updateTimer)
                        \cup {[id |-> NewTimerId(changes), due |-> now + Delay]}
         /\ updateTimer' = NewTimerId(changes)
         /\ changes' = Append(changes, now)

\* a change event of the checkbox id.  part_000: the debounce listener, then
\* (rot180) the macro listener.  docs/app.js: (rot180) the macro listener,
\* then loadedImage && renderPreview().
ChangeSetting(id) ==
    /\ pc = "page"
    /\ NoTimerDue
    /\ Len(changes) < MaxChanges
    /\ timers # {}
         \/ Len(updates) + Cardinality(decoding) + Cardinality(timers)
               < MaxUpdates
    /\ form' = Toggled(variant, form, id)
    /\ last' = id
    /\ IF variant = "part"
       THEN Debounce /\ UNCHANGED outname
       ELSE /\ outname' = IF loadedImage = NoFile THEN outname
                          ELSE RenderPreview(loadedName, loadedImage,
                                             Toggled(variant, form, id), outname)
            /\ UNCHANGED <<updateTimer, timers, changes>>
    /\ UNCHANGED <<loadedImage, loadedName, decoding, now, updates, currentMesh,
                   downloads>>
    /\ UNCHANGED <<variant, pc, img, p, data, thickness, written, pxMm, W, H, stl>>

\* a timer reaches its time and calls updatePreviews
TimerFires ==
    /\ pc = "page"
    /\ \E t \in timers :
          /\ t.due <= now
          /\ timers' = timers \ {t}
    /\ updates' = UpdateStarted(updates, loadedImage, "timer", now)
    /\ UNCHANGED <<loadedImage, loadedName, decoding, updateTimer, now, changes,
                   currentMesh, outname, downloads, last>>
    /\ UNCHANGED callVars

\* 200 ms pass.  The page reads the clock only through its timers, so the
\* model lets time pass only while one is pending.
Tick ==
    /\ pc = "page"
    /\ timers # {}
    /\ NoTimerDue
    /\ now < MaxTime
    /\ now' = now + 1
    /\ UNCHANGED <<loadedImage, loadedName, decoding, updateTimer, timers,
                   changes, updates, currentMesh, outname, downloads, last>>
    /\ UNCHANGED callVars

\* an animation frame: every updatePreviews call waiting for it resumes, in
\* the order of the calls
AnimationFrame ==
    /\ pc = "page"
    /\ \E k \in DOMAIN updates : updates[k].stage = "frame"
    /\ updates' = [k \in DOMAIN updates |->
                      UpdateFramed(updates[k], loadedImage, form)]
    /\ UNCHANGED <<loadedImage, loadedName, decoding, updateTimer, timers, now,
                   changes, currentMesh, outname, downloads, last>>
    /\ UNCHANGED callVars

\* the STLLoader of the k-th updatePreviews call has fetched and parsed its
\* blob and runs the callback: the old mesh leaves the scene, the new one
\* enters it.  Loads in flight finish in any order.
LoaderCallback(k) ==
    /\ pc = "page"
    /\ k \in DOMAIN updates
    /\ updates[k].stage = "loader"
    /\ currentMesh' = [update |-> k, mesh |-> updates[k].mesh]
    /\ outname' = OutFile(loadedName, updates[k].widthMm)
    /\ updates' = [updates EXCEPT ![k].stage = "done"]
    /\ UNCHANGED <<loadedImage, loadedName, decoding, updateTimer, timers, now,
                   changes, downloads, last>>
    /\ UNCHANGED callVars

InitPage ==
    /\ variant \in Variants
    /\ pc = "page"
    /\ \E r \in BOOLEAN : form = PageForm(r, r, r)
    /\ img = NoImage /\ p = NoParams /\ data = <<>> /\ thickness = <<>>
    /\ written = {} /\ pxMm = 0 /\ W = 0 /\ H = 0 /\ stl = NoStl
    /\ PageAtStart

\* files, decoding and downloads, with the previews they start
NextLoad ==
    \/ \E f \in Files : SelectFile(f)
    \/ \E f \in Files : LoadCompletes(f)
    \/ \E f \in Files : LoadFails(f)
    \/ ClickDownload
    \/ AnimationFrame
    \/ \E k \in 1..MaxUpdates : LoaderCallback(k)

SpecLoad == InitPage /\ [][NextLoad]_vars

\* setting changes, the debounce timer and the previews, over time
NextPreview ==
    \/ \E f \in Files : SelectFile(f)
    \/ \E f \in Files : LoadCompletes(f)
    \/ \E id \in Settings : ChangeSetting(id)
    \/ TimerFires
    \/ Tick
    \/ AnimationFrame
    \/ \E k \in 1..MaxUpdates : LoaderCallback(k)

SpecPreview == InitPage /\ [][NextPreview]_vars

(* ------------------------- claims: buildBinarySTL --------------------- *)
StlDone == pc = "stl_done"
StlOk == pc = "stl_done" /\ stl.status = "ok"
ValidField == DOMAIN thickness = 0..(W * H - 1)

\* C1: for W >= 2 and H >= 2 the count stored at offset 80 equals the number
\* of triangle records written, that number is
\* 2(W-1)(H-1) + 2(W-1)(H-1) + 2[2(W-1) + 2(H-1)], and the returned stream is
\* 84 + 50 * count bytes long, in both variants.
C1_TriangleCount ==
    (StlDone /\ W >= 2 /\ H >= 2) =>
        /\ stl.status = "ok"
        /\ U32At(stl.bytes, 80) = Len(stl.tris)
        /\ Len(stl.tris) = 2 * (W - 1) * (H - 1) + 2 * (W - 1) * (H - 1)
                             + 2 * (2 * (W - 1) + 2 * (H - 1))
        /\ Len(stl.bytes) = 84 + 50 * Len(stl.tris)

\* the spec's example: W = H = 2 gives 12 triangles and 684 bytes (part_000,
\* running counter and slice)
C1_Witness ==
    /\ StlOk /\ variant = "part" /\ W = 2 /\ H = 2
    /\ U32At(stl.bytes, 80) = 12 /\ Len(stl.tris) = 12 /\ Len(stl.bytes) = 684

DirEdges(t) == {<<t[1], t[2]>>, <<t[2], t[3]>>, <<t[3], t[1]>>}
\* how many emitted triangles run along the directed edge u -> v
DirCount(tris, u, v) ==
    Cardinality({k \in 1..Len(tris) : <<u, v>> \in DirEdges(tris[k])})
\* how many emitted triangles contain the undirected edge {u, v}
EdgeCount(tris, u, v) ==
    Cardinality({k \in 1..Len(tris) :
                   <<u, v>> \in DirEdges(tris[k]) \/ <<v, u>> \in DirEdges(tris[k])})

Layers(t) == {t[1][3], t[2][3], t[3][3]}
IsTopTri(t) == Layers(t) = {"top"}
IsBottomTri(t) == Layers(t) = {"bottom"}
IsWallTri(t) == Layers(t) = {"top", "bottom"}

\* the perimeter edges of one layer of the grid, as unordered vertex pairs
Perimeter(w, h, layer) ==
    {{<<x, y, layer>>, <<x + 1, y, layer>>} : x \in 0..(w - 2), y \in {0, h - 1}}
      \cup {{<<x, y, layer>>, <<x, y + 1, layer>>} : x \in {0, w - 1}, y \in 0..(h - 2)}

\* the emitted triangles with these layers that contain the unordered edge e
Along(tris, e, layers) ==
    {k \in 1..Len(tris) :
        /\ Layers(tris[k]) = layers
        /\ \E d \in DirEdges(tris[k]) : {d[1], d[2]} = e}

\* C2: for W >= 2 and H >= 2 the emitted triangles form a closed mesh: every
\* undirected edge of an emitted triangle lies in exactly two emitted
\* triangles, and each of the 2(W-1) + 2(H-1) perimeter edges of the top (and
\* of the bottom) surface lies in exactly one surface triangle and exactly
\* one wall triangle.
C2_ClosedMesh ==
    (StlDone /\ W >= 2 /\ H >= 2) =>
        /\ stl.status = "ok"
        /\ \A k \in 1..Len(stl.tris) : \A d \in DirEdges(stl.tris[k]) :
              d[1] # d[2] /\ EdgeCount(stl.tris, d[1], d[2]) = 2
        /\ Cardinality(Perimeter(W, H, "top")) = 2 * (W - 1) + 2 * (H - 1)
        /\ \A e \in Perimeter(W, H, "top") :
              /\ Cardinality(Along(stl.tris, e, {"top"})) = 1
              /\ Cardinality(Along(stl.tris, e, {"top", "bottom"})) = 1
        /\ \A e \in Perimeter(W, H, "bottom") :
              /\ Cardinality(Along(stl.tris, e, {"bottom"})) = 1
              /\ Cardinality(Along(stl.tris, e, {"top", "bottom"})) = 1

\* a 3 x 2 grid of the docs variant: 8 top, 8 bottom and 12 wall triangles
C2_Witness ==
    /\ StlOk /\ variant = "docs" /\ W = 3 /\ H = 2
    /\ Cardinality({k \in 1..Len(stl.tris) : IsWallTri(stl.tris[k])}) = 12
    /\ Cardinality({k \in 1..Len(stl.tris) : IsTopTri(stl.tris[k])}) = 4

\* the number a binary32 pattern of the fields above stands for
F32Int(bits) ==
    IF \E k \in 0..(MaxT + 1) : F32Bits(k) = bits
    THEN CHOOSE k \in 0..(MaxT + 1) : F32Bits(k) = bits
    ELSE NaN

\* physical coordinates of the grid vertex g in the current call
Pos(g) ==
    <<vx(variant, pxMm, W, g[1]), vy(variant, pxMm, H, g[2]),
      IF g[3] = "top"
      THEN (IF g[2] * W + g[1] \in DOMAIN thickness
            THEN F32Int(thickness[g[2] * W + g[1]]) ELSE NaN)
      ELSE 0>>

\* components of (b - a) x (c - a) for the triangle t, in physical coordinates
NormalX(t) ==
    LET a == Pos(t[1]) b == Pos(t[2]) c == Pos(t[3])
    IN  (b[2] - a[2]) * (c[3] - a[3]) - (b[3] - a[3]) * (c[2] - a[2])
NormalY(t) ==
    LET a == Pos(t[1]) b == Pos(t[2]) c == Pos(t[3])
    IN  (b[3] - a[3]) * (c[1] - a[1]) - (b[1] - a[1]) * (c[3] - a[3])
NormalZ(t) ==
    LET a == Pos(t[1]) b == Pos(t[2]) c == Pos(t[3])
    IN  (b[1] - a[1]) * (c[2] - a[2]) - (b[2] - a[2]) * (c[1] - a[1])

\* The component of a wall triangle's normal that points out of the solid:
\* the solid spans 0..(W-1)*pxMm in x and 0..(H-1)*pxMm in y, and a wall
\* lies in the plane of one of the four sides.
WallOutward(t) ==
    LET a == Pos(t[1]) b == Pos(t[2]) c == Pos(t[3])
    IN  IF a[2] = b[2] /\ b[2] = c[2]
        THEN (IF a[2] = 0 THEN 0 - NormalY(t) ELSE NormalY(t))
        ELSE (IF a[1] = 0 THEN 0 - NormalX(t) ELSE NormalX(t))

\* a wall triangle has zero area exactly when the thickness at one of its
\* top vertices is 0 and that vertex coincides with the one below it
WallFlat(t) ==
    \E i \in 1..3 : t[i][3] = "top" /\ Pos(t[i])[3] = 0
                       /\ \E j \in 1..3 : t[j] = <<t[i][1], t[i][2], "bottom">>

\* C3: for W >= 2 and H >= 2 the winding is consistent and outward: every
\* directed edge of an emitted triangle is in exactly one triangle and its
\* reverse in exactly one (other) triangle; with the variant's own vertex
\* mapping every top triangle faces +Z, every bottom triangle -Z, and every
\* wall triangle faces away from the interior (never inward, and strictly
\* outward unless the thickness under it is 0 and the triangle has no area).
C3_OutwardWinding ==
    (StlDone /\ W >= 2 /\ H >= 2) =>
        /\ stl.status = "ok"
        /\ \A k \in 1..Len(stl.tris) : \A d \in DirEdges(stl.tris[k]) :
              /\ DirCount(stl.tris, d[1], d[2]) = 1
              /\ DirCount(stl.tris, d[2], d[1]) = 1
        /\ \A k \in 1..Len(stl.tris) :
              LET t == stl.tris[k]
              IN  /\ IsTopTri(t) => NormalZ(t) > 0
                  /\ IsBottomTri(t) => NormalZ(t) < 0
                  /\ (IsWallTri(t) /\ ValidField) =>
                        /\ WallOutward(t) >= 0
                        /\ WallFlat(t) \/ WallOutward(t) > 0

\* part_000 on a 2 x 3 ramp field (all thicknesses positive): every wall
\* triangle strictly outward
C3_Witness ==
    /\ StlOk /\ variant = "part" /\ W = 2 /\ H = 3 /\ ValidField
    /\ \A i \in DOMAIN thickness : thickness[i] > 0
    /\ \E i, j \in DOMAIN thickness : thickness[i] # thickness[j]
    /\ \E k \in 1..Len(stl.tris) : IsWallTri(stl.tris[k])
    /\ \A k \in 1..Len(stl.tris) :
          IsWallTri(stl.tris[k]) => WallOutward(stl.tris[k]) > 0

\* the 50 bytes of the record of triangle t: zero normal, nine float32
\* values in the order passed to writeTri, attribute 0
Record(t) ==
    F32LE(0) \o F32LE(0) \o F32LE(0)
      \o F32LE(Pos(t[1])[1]) \o F32LE(Pos(t[1])[2]) \o F32LE(Pos(t[1])[3])
      \o F32LE(Pos(t[2])[1]) \o F32LE(Pos(t[2])[2]) \o F32LE(Pos(t[2])[3])
      \o F32LE(Pos(t[3])[1]) \o F32LE(Pos(t[3])[2]) \o F32LE(Pos(t[3])[3])
      \o LE16(0)

\* C4: the returned stream has the fixed layout: bytes 0..79 zero, bytes
\* 80..83 the little-endian triangle count, record k at bytes
\* 84+50k .. 84+50k+49 with a zero normal, the three vertices as nine
\* little-endian float32 values in the order passed to writeTri, and a zero
\* attribute; the records tile the stream without overlap.
C4_StreamLayout ==
    StlOk =>
        /\ Len(stl.bytes) = 84 + 50 * Len(stl.tris)
        /\ \A o \in 0..79 : stl.bytes[o + 1] = 0
        /\ U32At(stl.bytes, 80) = Len(stl.tris)
        /\ \A k \in 1..Len(stl.tris) :
              SubSeq(stl.bytes, 84 + 50 * (k - 1) + 1, 84 + 50 * k)
                  = Record(stl.tris[k])

\* a stream of 20 records whose vertices carry at least two different
\* non-zero thickness encodings
C4_Witness ==
    /\ StlOk /\ W = 3 /\ H = 2 /\ ValidField /\ pxMm = 2
    /\ Len(stl.tris) = 20
    /\ \E k \in 1..20 : stl.bytes[84 + 50 * (k - 1) + 12 + 8 + 4] = 64
    /\ \E k \in 1..20 : stl.bytes[84 + 50 * (k - 1) + 12 + 8 + 4] = 63
    /\ \E i, j \in DOMAIN thickness : thickness[i] # thickness[j]

\* C12: for W >= 2 and H >= 2 every store of buildBinarySTL lies inside the
\* buffer it allocated, so no RangeError is raised: in docs/app.js the write
\* cursor ends exactly at the end of the 84 + 50*triCount buffer, in part_000
\* the cursor 84 + 50*count never exceeds the allocated
\* 84 + 50*12*(W-1)*(H-1) bytes.
C12_WritesInsideBuffer ==
    (StlDone /\ W >= 2 /\ H >= 2) =>
        /\ stl.status = "ok"
        /\ stl.off = 84 + 50 * Len(stl.tris)
        /\ variant = "docs" =>
              /\ stl.alloc = 84 + 50 * TriCountDocs(W, H)
              /\ stl.off = stl.alloc
        /\ variant = "part" =>
              /\ stl.alloc = 84 + 50 * 12 * (W - 1) * (H - 1)
              /\ stl.off <= stl.alloc

\* part_000 on a 2 x 2 grid, where the 12 triangles fill the 684 allocated
\* bytes to the last one
C12_Witness ==
    /\ StlOk /\ variant = "part" /\ W = 2 /\ H = 2
    /\ stl.off = 684 /\ stl.alloc = 684

\* C6: for a degenerate field (W = 1 or H = 1, W*H cells) buildBinarySTL
\* completes without error and returns a header-only stream: count 0 and
\* length 84.
C6_DegenerateHeaderOnly ==
    (StlDone /\ W >= 1 /\ H >= 1 /\ (W = 1 \/ H = 1) /\ ValidField) =>
        /\ stl.status = "ok"
        /\ Len(stl.bytes) = 84
        /\ U32At(stl.bytes, 80) = 0
        /\ Len(stl.tris) = 0

\* C9: buildBinarySTL fails (with InvalidDimensions, before producing any
\* output) whenever W < 1 or H < 1 or the field's length differs from W*H:
\* it never returns a stream for such input.  The code has no
\* InvalidDimensions error; what can be asked of it is that no stream comes
\* back.
C9_InvalidDimensions ==
    (StlDone /\ (W < 1 \/ H < 1 \/ ~ValidField)) =>
        /\ stl.status # "ok"
        /\ stl.bytes = <<>>

(* ----------------------- claims: computeThicknessMap ------------------ *)
FieldDone == pc = "field_done"
Cells == 0..(W * H - 1)
ValidParams ==
    /\ p.baseMm >= 0 /\ p.reliefMm >= 0
    /\ p.blackCut < p.whiteCut /\ p.toneGamma > 0

\* how the binary32 nearest to b thousandths compares with b itself:
\* below it (-1), equal (0) or above it (1)
Remainder(b) == IF b = 0 THEN 0 ELSE Scaled(b, Binade(b)) % 125
FroundDir(b) ==
    IF Remainder(b) = 0 THEN 0 ELSE IF 2 * Remainder(b) > 125 THEN 1 ELSE 0 - 1
\* the cell value c (a binary32 pattern) against the number b thousandths;
\* no binary32 lies strictly between b and the binary32 nearest to it
CellBelow(c, b) == c < Fround(b) \/ (c = Fround(b) /\ FroundDir(b) < 0)
CellAbove(c, b) == c > Fround(b) \/ (c = Fround(b) /\ FroundDir(b) > 0)
CellEquals(c, b) == c = Fround(b) /\ FroundDir(b) = 0

\* every cell of the returned field is a pattern from lo to hi
CellsBetween(lo, hi) ==
    \A i \in Cells : lo <= thickness[i] /\ thickness[i] <= hi

\* C5 as stated: for valid parameters every one of the W*H entries of the
\* returned field lies in [baseMm, baseMm + reliefMm], and every entry has
\* been assigned by the pixel loop, also when flipX / flipY remap the index.
C5_ThicknessRange ==
    (FieldDone /\ ValidParams) =>
        /\ DOMAIN thickness = Cells
        /\ written = Cells
        /\ \A i \in Cells :
              /\ ~CellBelow(thickness[i], p.baseMm)
              /\ ~CellAbove(thickness[i], p.baseMm + p.reliefMm)

\* C5 amended: for valid parameters every one of the W*H entries of the
\* returned field lies between baseMm and baseMm + reliefMm each rounded to
\* single precision (the field is a Float32Array), and every entry has been
\* assigned by the pixel loop, also when flipX / flipY remap the index.
C5_ThicknessRangeSingle ==
    (FieldDone /\ ValidParams) =>
        /\ DOMAIN thickness = Cells
        /\ written = Cells
        /\ CellsBetween(Fround(p.baseMm), Fround(p.baseMm + p.reliefMm))

\* a field written through both flips that reaches both ends of the range
\* and a value strictly between them
C5_Witness ==
    /\ FieldDone /\ ValidParams /\ p.flipX /\ p.flipY /\ W >= 2 /\ H >= 2
    /\ p.reliefMm > 0 /\ p.toneGamma # One /\ p.blackCut > 0
    /\ \E i \in Cells : thickness[i] = Fround(p.baseMm)
    /\ \E i \in Cells : thickness[i] = Fround(p.baseMm + p.reliefMm)
    /\ \E i \in Cells :
          /\ Fround(p.baseMm) < thickness[i]
          /\ thickness[i] < Fround(p.baseMm + p.reliefMm)

\* the field the same call builds with the given flips switched off
FieldWith(fx, fy) ==
    computeThicknessMap(variant, img, [p EXCEPT !.flipX = fx, !.flipY = fy],
                        data).thickness
\* reversal of the x index within a row / of the row index
RevX(i) == (i \div W) * W + (W - 1 - (i % W))
RevY(i) == (H - 1 - (i \div W)) * W + (i % W)
\* the reversals the parameters ask for
Mirror(i) ==
    LET j == IF p.flipX THEN RevX(i) ELSE i IN IF p.flipY THEN RevY(j) ELSE j

\* the returned field against the fields built without both flips (f00),
\* without flipX (f0y) and without flipY (fx0)
FlipsAgree(f00, f0y, fx0) ==
    \A i \in Cells :
        /\ thickness[i] = f00[Mirror(i)]
        /\ f00[i] = thickness[Mirror(i)]
        /\ p.flipX => thickness[i] = f0y[RevX(i)]
        /\ p.flipY => thickness[i] = fx0[RevY(i)]
        /\ Mirror(Mirror(i)) = i

\* C7: the field built with flipX is the unflipped field with the x index
\* reversed in every row, likewise flipY with the rows reversed; each flip
\* acts independently of the other, and reversing twice restores the field
\* (the remap is an involution and a bijection on the cells).
C7_FlipIsIndexReversal ==
    FieldDone =>
        /\ DOMAIN thickness = Cells
        /\ FlipsAgree(FieldWith(FALSE, FALSE), FieldWith(FALSE, p.flipY),
                      FieldWith(p.flipX, FALSE))
        /\ {Mirror(i) : i \in Cells} = Cells

\* flipX alone on a patterned 3-column image: the field differs from the
\* unflipped one
C7_Witness ==
    /\ FieldDone /\ p.flipX /\ ~p.flipY /\ W = 3 /\ H >= 2
    /\ img.kind = "pattern" /\ p.reliefMm > 0
    /\ thickness # FieldWith(FALSE, FALSE)
    /\ thickness[0] = FieldWith(FALSE, FALSE)[2]

Uniform(rgb) == \A k \in DOMAIN data : data[k] = rgb
AllCells(c) == DOMAIN thickness = Cells /\ \A i \in Cells : thickness[i] = c
AllCellsEqual(b) ==
    DOMAIN thickness = Cells /\ \A i \in Cells : CellEquals(thickness[i], b)

\* C10 as stated: with blackCut = 0, whiteCut = 1 and toneGamma = 1, an
\* all-white image gives a field in which every entry equals baseMm under
\* invert and an all-black image one in which every entry equals
\* baseMm + reliefMm, for any W, H, flipX, flipY; without invert the two are
\* swapped.
C10_Monochrome ==
    (FieldDone /\ p.blackCut = 0 /\ p.whiteCut = One /\ p.toneGamma = One) =>
        /\ (Uniform(<<255, 255, 255>>) /\ p.mapInvert)
              => AllCellsEqual(p.baseMm)
        /\ (Uniform(<<0, 0, 0>>) /\ p.mapInvert)
              => AllCellsEqual(p.baseMm + p.reliefMm)
        /\ (Uniform(<<255, 255, 255>>) /\ ~p.mapInvert)
              => AllCellsEqual(p.baseMm + p.reliefMm)
        /\ (Uniform(<<0, 0, 0>>) /\ ~p.mapInvert)
              => AllCellsEqual(p.baseMm)

\* C10 amended: under the same settings every entry of the all-white field
\* is baseMm rounded to single precision and every entry of the all-black
\* field is baseMm + reliefMm rounded to single precision; without invert
\* the two are swapped.
C10_MonochromeSingle ==
    (FieldDone /\ p.blackCut = 0 /\ p.whiteCut = One /\ p.toneGamma = One) =>
        /\ (Uniform(<<255, 255, 255>>) /\ p.mapInvert)
              => AllCells(Fround(p.baseMm))
        /\ (Uniform(<<0, 0, 0>>) /\ p.mapInvert)
              => AllCells(Fround(p.baseMm + p.reliefMm))
        /\ (Uniform(<<255, 255, 255>>) /\ ~p.mapInvert)
              => AllCells(Fround(p.baseMm + p.reliefMm))
        /\ (Uniform(<<0, 0, 0>>) /\ ~p.mapInvert)
              => AllCells(Fround(p.baseMm))

\* an all-white 3 x 3 raster under invert, written through both flips
C10_Witness ==
    /\ FieldDone /\ p.blackCut = 0 /\ p.whiteCut = One /\ p.toneGamma = One
    /\ Uniform(<<255, 255, 255>>) /\ p.mapInvert /\ p.flipX /\ p.flipY
    /\ W = 3 /\ H = 3 /\ p.baseMm = 800 /\ p.reliefMm = 2000
    /\ AllCells(Fround(800))

\* C8: for every source image and every entered widthPx the pipeline runs
\* with W = the integer widthPx clamped to at least 10 and
\* H = round(H0 * W / W0) with a minimum of 1, and the thickness field has
\* exactly W*H entries.
C8_CanvasSize ==
    pc # "page" =>
        /\ form.widthPx.ok => W = Max2(10, form.widthPx.val \div One)
        /\ H = Max2(1, Round(img.height * W, img.width))
        /\ H >= 1
        /\ pc = "field_done"
        /\ DOMAIN thickness = Cells

(* ------------------------------ claims: the page ---------------------- *)
\* C11: every downloaded file is named <inputBaseName>_W<widthMm>mm.stl with
\* inputBaseName the name, extension stripped, of the file the image used
\* for that mesh was decoded from; loadedName and loadedImage always refer to
\* the same file, also while a later file is still loading, after it failed
\* to load, and when two loads overlap.
C11_DownloadNaming ==
    /\ \A k \in DOMAIN downloads :
          downloads[k].name
              = OutFile(BaseName(FileNames[downloads[k].file]),
                        getParams(variant, form).widthMm)
    /\ loadedImage # NoFile => loadedName = BaseName(FileNames[loadedImage])

AllUpdatesDone ==
    updates # <<>> /\ \A k \in DOMAIN updates : updates[k].stage = "done"

\* C13: in part_000, once every started updatePreviews has completed, the
\* mesh in currentMesh is the one built by the most recently started
\* updatePreviews, whatever the order in which the loader callbacks ran.
C13_LatestPreviewShown ==
    (variant = "part" /\ AllUpdatesDone) =>
        /\ currentMesh # NoMesh
        /\ currentMesh.mesh.built = updates[Len(updates)].mesh.built

\* the updatePreviews calls the debounce timer made, in order
IsTimerCall(u) == u.by = "timer"
TimerCalls == SelectSeq(updates, IsTimerCall)
\* the change events that end a burst: the last one so far, and every one
\* followed by the next no sooner than 400 ms later
IsBurstEnd(i) == i = Len(changes) \/ changes[i + 1] - changes[i] >= Delay
BurstEnds == SelectSeq([i \in 1..Len(changes) |-> i], IsBurstEnd)

\* C14: in part_000 at most one debounce timer is pending at any time, it is
\* the one set by the last change event and due 400 ms after it (an earlier
\* one was cancelled); every burst of change events less than 400 ms apart
\* leads to exactly one updatePreviews call, made 400 ms after the last
\* event of the burst; change events with no image loaded schedule nothing.
C14_Debounced ==
    variant = "part" =>
        /\ Cardinality(timers) <= 1
        /\ \A t \in timers :
              /\ t.id = updateTimer
              /\ changes # <<>> /\ t.due = changes[Len(changes)] + Delay
        /\ Len(TimerCalls) + Cardinality(timers) = Len(BurstEnds)
        /\ \A k \in 1..Len(TimerCalls) :
              TimerCalls[k].at = changes[BurstEnds[k]] + Delay
        /\ loadedImage = NoFile =>
              /\ timers = {} /\ updateTimer = NoTimer
              /\ changes = <<>> /\ updates = <<>>

\* two change events 200 ms apart, the first timer cancelled, and one call
\* 400 ms after the second
C14_Witness ==
    /\ variant = "part" /\ Len(changes) = 2 /\ changes[2] - changes[1] = 1
    /\ timers = {} /\ Len(TimerCalls) = 1
    /\ TimerCalls[1].at = changes[2] + Delay

\* C15: in part_000 rot180 is a macro for flipX + flipY: right after a change
\* event of rot180 both checkboxes, and the flipX and flipY that getParams
\* returns, equal rot180's checked state.
C15_Rot180Macro ==
    (variant = "part" /\ last = "rot180") =>
        /\ form.flipX = form.rot180 /\ form.flipY = form.rot180
        /\ getParams(variant, form).flipX = form.rot180
        /\ getParams(variant, form).flipY = form.rot180

\* rot180 was unchecked with an image loaded: both flips are off for the
\* preview the pending timer will make
C15_Witness ==
    /\ variant = "part" /\ last = "rot180" /\ ~form.rot180
    /\ ~getParams(variant, form).flipX /\ ~getParams(variant, form).flipY
    /\ loadedImage # NoFile /\ timers # {}

=============================================================================
